---- MODULE Spec2Model ----
(***************************************************************************)
(* The conversational turn state machine of src/App.js: the React state of *)
(* the App component, the DOM events that reach its handlers, and the      *)
(* async handler handleAskLKY with its two suspension points (await fetch, *)
(* await apiResponse.json()).                                              *)
(*                                                                         *)
(* JavaScript runs each handler, and each continuation after an await, to  *)
(* completion; React commits the state updates a handler queued before the *)
(* browser dispatches the next DOM event (the state updates queued after   *)
(* an await are committed while the controls are still disabled).  One     *)
(* action is therefore one handler run or one continuation, render         *)
(* included, and the closure a handler runs with holds the state of the    *)
(* latest render.                                                          *)
(***************************************************************************)
EXTENDS Naturals, Sequences, FiniteSets, TLC

VARIABLES
    query,        \* useState('')    line 27
    response,     \* useState(null)  line 28
    isLoading,    \* useState(false) line 29
    error,        \* useState(null)  line 30
    chatHistory,  \* useState([])    line 31: sequence of [role, text]
    kb,           \* the array lkyKnowledgeBase, lines 6-23
    requests,     \* the suspended runs of handleAskLKY: one frame per outstanding call
    sent,         \* history: the calls of fetch, line 88, in order
    outcomes,     \* history: how each accepted run has ended, in order
    nAccepted,    \* history: runs of handleAskLKY that passed the guard of line 38
    nSucceeded,   \* history: runs that reached line 102
    nFailed,      \* history: runs that reached the catch block, line 104
    last          \* history: the step taken last

vars == <<query, response, isLoading, error, chatHistory, kb, requests, sent,
          outcomes, nAccepted, nSucceeded, nFailed, last>>

(***************************************************************************)
(* Bounds of the model.                                                    *)
(***************************************************************************)
MaxTurns == 2      \* accepted submissions per behaviour
MaxQueryLen == 1   \* characters the user types into the input
MaxCorpusLen == 3  \* passages of a corpus the retrieval is tried on

\* the keys of the keyboard that are modelled: the space and a letter that occurs
\* nowhere in lkyKnowledgeBase
Alphabet == {" ", "x"}

RECURSIVE SeqsUpTo(_, _)
SeqsUpTo(S, n) ==
    IF n = 0 THEN {""}
    ELSE LET shorter == SeqsUpTo(S, n - 1)
         IN  shorter \cup {s \o c : s \in shorter, c \in S}

\* the values e.target.value can take, line 166
Queries == SeqsUpTo(Alphabet, MaxQueryLen)

(***************************************************************************)
(* JavaScript values.                                                      *)
(***************************************************************************)
Null == "null"                                    \* the value null of lines 28, 30, 41, 42
Undefined == [t |-> "undefined"]
JNull == [t |-> "null"]                           \* the null of a JSON document
JStr(s) == [t |-> "string", v |-> s]
JArr(es) == [t |-> "array", v |-> es]
JObj(key, val) == [t |-> "object", k |-> key, v |-> val]  \* an object with one own property
JEmpty == [t |-> "object", k |-> "", v |-> Undefined]     \* {}

Nullish(v) == v.t \in {"undefined", "null"}

\* v[name] of a value that is not undefined
Get(v, name) == IF v.t = "object" /\ v.k = name THEN v.v ELSE Undefined

\* v[0] of a value that is not undefined
Index0(v) ==
    IF v.t = "array" /\ Len(v.v) > 0 THEN v.v[1]
    ELSE IF v.t = "string" /\ Len(v.v) > 0 THEN JStr(SubSeq(v.v, 1, 1))
    ELSE Undefined

\* ToBoolean, as the operator || of line 99 applies it
Truthy(v) ==
    CASE Nullish(v)     -> FALSE
      [] v.t = "string" -> v.v # ""
      [] OTHER          -> TRUE

(***************************************************************************)
(* The generation service, as fetch shows it to the handler.               *)
(***************************************************************************)
Statuses == {200, 404, 500}

StatusText(status) ==
    CASE status = 200 -> "OK"
      [] status = 404 -> "Not Found"
      [] status = 500 -> "Internal Server Error"

\* the texts the service generates
ReplyTexts == {"", "ok"}

Candidates(c) == JObj("candidates", JArr(c))
Reply(p) == Candidates(<<JObj("content", JObj("parts", JArr(p)))>>)

\* the documents apiResponse.json() resolves to
Bodies ==
    { JNull,                                         \* null
      JEmpty,                                        \* {}
      Candidates(<<>>),                              \* {candidates: []}
      Candidates(<<JEmpty>>),                        \* {candidates: [{}]}
      Candidates(<<JObj("content", JEmpty)>>),       \* {candidates: [{content: {}}]}
      Reply(<<>>),                                   \* ... {parts: []}
      Reply(<<JEmpty>>) }                            \* ... {parts: [{}]}
    \cup { Reply(<<JObj("text", JStr(t))>>) : t \in ReplyTexts }

\* what a rejected promise or a throw statement carries
Err(name, message) == [name |-> name, message |-> message]

NetworkError == Err("TypeError", "Failed to fetch")
ParseError == Err("SyntaxError", "Unexpected end of JSON input")
ReadError(prop) ==
    Err("TypeError", "Cannot read properties of undefined (reading '" \o prop \o "')")

(***************************************************************************)
(* The knowledge base, lines 6-23.                                         *)
(***************************************************************************)
lkyKnowledgeBase ==
    << [topic |-> "geopolitics, Singapore's survival",
        text |-> "My life has been spent building Singapore. We are a small country in a dangerous world, and we must always be relevant to the big powers. We do not have natural resources, our only resource is our people. Therefore, we must be a thinking people, and we must have a strong defense force to protect our sovereignty. The world owes us nothing. We owe ourselves our own survival."],
       [topic |-> "leadership, challenges",
        text |-> "Leadership is about making difficult decisions, often unpopular ones, for the long-term good of the country. A leader must be honest and incorruptible. He must be willing to tell the people the hard truths, even if it costs him popularity. Singapore's success was not by chance; it was a result of meticulous planning and a firm hand in implementation."],
       [topic |-> "social policy, meritocracy",
        text |-> "Meritocracy is the cornerstone of our society. We reward individuals based on their abilities and hard work, not their race, religion, or background. This ensures that the best minds lead the country and that everyone has an equal opportunity to succeed. However, we must also ensure that no one is left behind, and that social mobility remains a reality for all our citizens."],
       [topic |-> "economy, future",
        text |-> "To thrive in the global economy, Singapore must be agile and open. We must continuously attract foreign investment and remain a hub for trade, finance, and technology. We must innovate and adapt, or we will become irrelevant. The future belongs to those who are disciplined and can seize opportunities."] >>

(***************************************************************************)
(* The methods of String and Array that handleAskLKY calls.                *)
(***************************************************************************)
UpperCaseLetters == "ABCDEFGHIJKLMNOPQRSTUVWXYZ"
LowerCaseLetters == "abcdefghijklmnopqrstuvwxyz"

CharAt(s, i) == SubSeq(s, i, i)

LowerChar(c) ==
    IF \E k \in 1..26 : CharAt(UpperCaseLetters, k) = c
    THEN CharAt(LowerCaseLetters, CHOOSE k \in 1..26 : CharAt(UpperCaseLetters, k) = c)
    ELSE c

RECURSIVE LowerRange(_, _, _)
LowerRange(s, i, j) ==
    IF i > j THEN ""
    ELSE IF i = j THEN LowerChar(CharAt(s, i))
    ELSE LET m == (i + j) \div 2
         IN  LowerRange(s, i, m) \o LowerRange(s, m + 1, j)

\* the lower-cased strings of lkyKnowledgeBase, evaluated once
LowerCaseMemo ==
    [s \in {lkyKnowledgeBase[i].topic : i \in 1..Len(lkyKnowledgeBase)}
             \cup {lkyKnowledgeBase[i].text : i \in 1..Len(lkyKnowledgeBase)}
       |-> LowerRange(s, 1, Len(s))]

\* s.toLowerCase(), lines 53-54
ToLowerCase(s) ==
    IF s \in DOMAIN LowerCaseMemo THEN LowerCaseMemo[s] ELSE LowerRange(s, 1, Len(s))

\* s.includes(q), lines 53-54
Includes(s, q) ==
    \E i \in 1..(Len(s) - Len(q) + 1) : SubSeq(s, i, i + Len(q) - 1) = q

\* texts.join(sep), lines 59-60
RECURSIVE Join(_, _)
Join(texts, sep) ==
    IF texts = <<>> THEN ""
    ELSE IF Len(texts) = 1 THEN texts[1]
    ELSE texts[1] \o sep \o Join(Tail(texts), sep)

(***************************************************************************)
(* handleAskLKY, lines 37-111: its pure parts.                             *)
(***************************************************************************)
NoResponseFound == "No response found."

ErrorMessage == "An error occurred. Please try again."

\* !query, line 38: the empty string is the only falsy string
Falsy(q) == q = ""

\* chatHistory written back as it was captured, the user Turn left out
SameChatHistory(history, q) == history

\* [...chatHistory, { role: "user", text: query }], line 45
NewChatHistory(history, q) == Append(history, [role |-> "user", text |-> q])

\* the test with the query compared as it was typed
MatchesCaseSensitive(doc, q) ==
    \/ Includes(ToLowerCase(doc.topic), q)
    \/ Includes(ToLowerCase(doc.text), q)

\* the test of the filter, lines 52-55
Matches(doc, q) ==
    \/ Includes(ToLowerCase(doc.topic), ToLowerCase(q))
    \/ Includes(ToLowerCase(doc.text), ToLowerCase(q))

\* corpus.filter(doc => ...), lines 52-55
Filter(q, corpus) == SelectSeq(corpus, LAMBDA doc : Matches(doc, q))

\* the filter of lkyKnowledgeBase for the queries that can be typed, evaluated once
RetrievedMemo == [q \in Queries |-> Filter(q, lkyKnowledgeBase)]

\* const retrievedDocs = lkyKnowledgeBase.filter(...), lines 52-55
RetrievedDocs(q, corpus) ==
    IF corpus = lkyKnowledgeBase /\ q \in DOMAIN RetrievedMemo
    THEN RetrievedMemo[q]
    ELSE Filter(q, corpus)

\* docs.map(doc => doc.text), lines 59-60
Texts(docs) == [i \in 1..Len(docs) |-> docs[i].text]

Separator == "\n---\n"

\* a context block with a separator after every text
ContextTrailingSeparator(retrievedDocs, corpus) ==
    IF Len(retrievedDocs) > 0
    THEN Join(Texts(retrievedDocs), Separator) \o Separator
    ELSE Join(Texts(corpus), Separator) \o Separator

\* a context block of the matches alone, with nothing to fall back on
ContextOfMatchesOnly(retrievedDocs, corpus) ==
    Join(Texts(retrievedDocs), Separator)

\* const context = ..., lines 58-60
Context(retrievedDocs, corpus) ==
    IF Len(retrievedDocs) > 0
    THEN Join(Texts(retrievedDocs), Separator)
    ELSE Join(Texts(corpus), Separator)

\* the template literal of lines 65-75, around ${query} and ${context}
PromptHead ==
    "\n        You are Lee Kuan Yew. Your persona is that of a statesman, leader, and realist.\n        Answer the following question in the style of Lee Kuan Yew, using the provided context below as your primary source of information.\n        Be firm, direct, and pragmatic in your response.\n        If the context does not contain enough information to answer the question, state that you do not have the information but offer a related insight from the provided text. Do not make up facts.\n\n        Question: "

PromptMiddle == "\n\n        Context:\n        "

PromptTail == "\n      "

\* a prompt that carries the Turns of the conversation so far
AugmentedPromptWithHistory(q, context) ==
    PromptHead \o q \o PromptMiddle \o context
      \o Join([i \in 1..Len(chatHistory) |-> chatHistory[i].text], Separator)
      \o PromptTail

\* const augmentedPrompt = `...`, lines 65-75
AugmentedPrompt(q, context) ==
    PromptHead \o q \o PromptMiddle \o context \o PromptTail

\* const payload = ..., lines 78-83
Payload(augmentedPrompt) ==
    [contents |-> <<[role |-> "user", parts |-> <<[text |-> augmentedPrompt]>>]>>,
     generationConfig |-> [temperature |-> "0.7"]]

\* const apiUrl = ..., lines 85-86
ApiUrl ==
    "https://generativelanguage.googleapis.com/v1beta/models/gemini-2.5-flash-preview-05-20:generateContent?key="

\* the arguments of fetch, lines 88-92; body stands for the JSON text of payload
Request(payload) ==
    [url |-> ApiUrl, method |-> "POST",
     headers |-> [ContentType |-> "application/json"], body |-> payload]

\* apiResponse.ok, line 94: fetch sets it for the statuses 200-299
Ok(status) == status \in 200..299

\* new Error(`API error: ${apiResponse.status} ${apiResponse.statusText}`), line 95
ApiError(status) ==
    Err("Error", "API error: " \o ToString(status) \o " " \o StatusText(status))

Value(v) == [threw |-> FALSE, value |-> v]
Threw(e) == [threw |-> TRUE, err |-> e]

\* result.candidates[0]?.content?.parts[0]?.text, line 99: a plain access of a
\* nullish value throws, and ?. of a nullish value ends the whole chain as undefined
GeneratedText(result) ==
    IF Nullish(result) THEN Threw(ReadError("candidates"))
    ELSE LET candidates == Get(result, "candidates") IN
    IF Nullish(candidates) THEN Threw(ReadError("0"))
    ELSE LET first == Index0(candidates) IN
    IF Nullish(first) THEN Value(Undefined)
    ELSE LET content == Get(first, "content") IN
    IF Nullish(content) THEN Value(Undefined)
    ELSE LET parts == Get(content, "parts") IN
    IF Nullish(parts) THEN Threw(ReadError("0"))
    ELSE LET part == Index0(parts) IN
    IF Nullish(part) THEN Value(Undefined)
    ELSE Value(Get(part, "text"))

\* const aiText = ... || "No response found.", line 99
AiText(result) ==
    LET found == GeneratedText(result) IN
    IF found.threw THEN found
    ELSE IF Truthy(found.value) THEN Value(found.value.v)
    ELSE Value(NoResponseFound)

\* the assistant Turn spread in front of prevHistory
AiTurnFirst(prevHistory, aiText) ==
    <<[role |-> "gemini", text |-> aiText]>> \o prevHistory

\* prevHistory => [...prevHistory, { role: "gemini", text: aiText }], line 102
WithAiTurn(prevHistory, aiText) ==
    Append(prevHistory, [role |-> "gemini", text |-> aiText])

\* the message of the caught error shown as it is
RawMessage(err) == err.message

\* setError("An error occurred. Please try again."), line 105
CaughtMessage(err) == ErrorMessage

\* the error of the turn before left in place
KeptError == error

\* setError(null), line 42
ClearedError == Null

\* the input without its disabled attribute
InputNeverDisabled == FALSE

\* disabled={isLoading}, lines 168 and 173: a disabled control gets no events
InputDisabled == isLoading

\* the Ask button without its disabled attribute
ButtonNeverDisabled == FALSE

ButtonDisabled == isLoading

(***************************************************************************)
(* History of the last step, for stating the properties.                   *)
(***************************************************************************)
NoFrame ==
    [turn |-> 0, query |-> "", chatHistory |-> <<>>, retrievedDocs |-> <<>>,
     context |-> "", pc |-> "none"]

Step(ev, delivered, frame, body, err) ==
    [ev |-> ev, delivered |-> delivered, frame |-> frame, body |-> body, err |-> err]

Remove(s, i) == SubSeq(s, 1, i - 1) \o SubSeq(s, i + 1, Len(s))

Init ==
    /\ query = ""
    /\ response = Null
    /\ isLoading = FALSE
    /\ error = Null
    /\ chatHistory = <<>>
    /\ kb = lkyKnowledgeBase
    /\ requests = <<>>
    /\ sent = <<>>
    /\ outcomes = <<>>
    /\ nAccepted = 0
    /\ nSucceeded = 0
    /\ nFailed = 0
    /\ last = Step("init", FALSE, NoFrame, Undefined, Null)

(***************************************************************************)
(* The handlers.                                                           *)
(***************************************************************************)
\* one call of fetch, line 88, with the state it was made in
Fetch(frame, request) ==
    [turn |-> frame.turn, query |-> frame.query, request |-> request,
     from |-> [chatHistory |-> chatHistory, error |-> error, response |-> response]]

\* onChange={(e) => setQuery(e.target.value)}, line 166
OnChange(q) ==
    /\ ~InputDisabled
    /\ query' = q
    /\ last' = Step("change", TRUE, NoFrame, Undefined, Null)
    /\ UNCHANGED <<response, isLoading, error, chatHistory, kb, requests, sent,
                   outcomes, nAccepted, nSucceeded, nFailed>>

\* handleAskLKY up to its first suspension, await fetch(...): lines 37-92
HandleAskLKY(ev) ==
    IF Falsy(query)
    THEN /\ last' = Step(ev, TRUE, NoFrame, Undefined, Null)
         /\ UNCHANGED <<query, response, isLoading, error, chatHistory, kb,
                        requests, sent, outcomes, nAccepted, nSucceeded, nFailed>>
    ELSE LET retrievedDocs == RetrievedDocs(query, kb)
             context == Context(retrievedDocs, kb)
             augmentedPrompt == AugmentedPrompt(query, context)
             payload == Payload(augmentedPrompt)
             frame == [turn |-> nAccepted + 1, query |-> query,
                       chatHistory |-> chatHistory, retrievedDocs |-> retrievedDocs,
                       context |-> context, pc |-> "fetch"]
         IN  /\ nAccepted < MaxTurns
             /\ isLoading' = TRUE
             /\ response' = Null
             /\ error' = ClearedError
             /\ chatHistory' = NewChatHistory(chatHistory, query)
             /\ requests' = Append(requests, frame)
             /\ sent' = Append(sent, Fetch(frame, Request(payload)))
             /\ outcomes' = Append(outcomes, "pending")
             /\ nAccepted' = nAccepted + 1
             /\ last' = Step(ev, TRUE, frame, Undefined, Null)
             /\ UNCHANGED <<query, kb, nSucceeded, nFailed>>

\* a click on the Ask button, onClick={handleAskLKY}, lines 170-176
ClickAsk ==
    IF ButtonDisabled
    THEN /\ last' = Step("click", FALSE, NoFrame, Undefined, Null)
         /\ UNCHANGED <<query, response, isLoading, error, chatHistory, kb,
                        requests, sent, outcomes, nAccepted, nSucceeded, nFailed>>
    ELSE HandleAskLKY("click")

Keys == {"Enter", "Tab"}

\* a key pressed in the input, onKeyPress={handleKeyPress}: lines 114-118, 167
KeyPress(key) ==
    IF InputDisabled
    THEN /\ last' = Step(key, FALSE, NoFrame, Undefined, Null)
         /\ UNCHANGED <<query, response, isLoading, error, chatHistory, kb,
                        requests, sent, outcomes, nAccepted, nSucceeded, nFailed>>
    ELSE IF key = "Enter"
    THEN HandleAskLKY(key)
    ELSE /\ last' = Step(key, TRUE, NoFrame, Undefined, Null)
         /\ UNCHANGED <<query, response, isLoading, error, chatHistory, kb,
                        requests, sent, outcomes, nAccepted, nSucceeded, nFailed>>

\* a finally block that leaves the input as it was typed
FinallyKeepsQuery(i) ==
    /\ isLoading' = FALSE
    /\ query' = query
    /\ requests' = Remove(requests, i)

\* a finally block that leaves the loading flag set
FinallyStillLoading(i) ==
    /\ isLoading' = isLoading
    /\ query' = ""
    /\ requests' = Remove(requests, i)

\* finally { setIsLoading(false); setQuery(''); }, lines 107-110, and the return
Finally(i) ==
    /\ isLoading' = FALSE
    /\ query' = ""
    /\ requests' = Remove(requests, i)

\* a catch block that sends the request of the failed turn once more
CatchRetry(i, err, body) ==
    /\ requests' = [requests EXCEPT ![i].pc = "fetch"]
    /\ sent' = Append(sent, Fetch(requests[i],
                  Request(Payload(AugmentedPrompt(requests[i].query,
                                                  requests[i].context)))))
    /\ last' = Step("retry", TRUE, requests[i], body, err.message)
    /\ UNCHANGED <<query, response, isLoading, error, chatHistory, kb, outcomes,
                   nAccepted, nSucceeded, nFailed>>

\* a catch block that also shows the failure as an assistant Turn
CatchAsTurn(i, err, body) ==
    /\ error' = CaughtMessage(err)
    /\ chatHistory' = WithAiTurn(chatHistory, NoResponseFound)
    /\ Finally(i)
    /\ nFailed' = nFailed + 1
    /\ outcomes' = [outcomes EXCEPT ![requests[i].turn] = "failed"]
    /\ last' = Step("failed", TRUE, requests[i], body, err.message)
    /\ UNCHANGED <<response, kb, sent, nAccepted, nSucceeded>>

\* catch (err) { setError(...); console.error(err); } and finally, lines 104-110
Catch(i, err, body) ==
    /\ error' = CaughtMessage(err)
    /\ Finally(i)
    /\ nFailed' = nFailed + 1
    /\ outcomes' = [outcomes EXCEPT ![requests[i].turn] = "failed"]
    /\ last' = Step("failed", TRUE, requests[i], body, err.message)
    /\ UNCHANGED <<response, chatHistory, kb, sent, nAccepted, nSucceeded>>

\* the assistant Turn appended to the chatHistory the handler captured
SucceedFromClosure(i, body, aiText) ==
    /\ chatHistory' = WithAiTurn(requests[i].chatHistory, aiText)
    /\ Finally(i)
    /\ nSucceeded' = nSucceeded + 1
    /\ outcomes' = [outcomes EXCEPT ![requests[i].turn] = "succeeded"]
    /\ last' = Step("succeeded", TRUE, requests[i], body, Null)
    /\ UNCHANGED <<response, error, kb, sent, nAccepted, nFailed>>

\* setChatHistory(prevHistory => ...) and finally, lines 102-110
Succeed(i, body, aiText) ==
    /\ chatHistory' = WithAiTurn(chatHistory, aiText)
    /\ Finally(i)
    /\ nSucceeded' = nSucceeded + 1
    /\ outcomes' = [outcomes EXCEPT ![requests[i].turn] = "succeeded"]
    /\ last' = Step("succeeded", TRUE, requests[i], body, Null)
    /\ UNCHANGED <<response, error, kb, sent, nAccepted, nFailed>>

\* await fetch(...) rejects: no network, line 88
FetchRejects(i) ==
    /\ requests[i].pc = "fetch"
    /\ Catch(i, NetworkError, Undefined)

\* await fetch(...) resolves to a response with this status, lines 88-98
FetchResolves(i, status) ==
    /\ requests[i].pc = "fetch"
    /\ IF ~Ok(status)
       THEN Catch(i, ApiError(status), Undefined)
       ELSE /\ requests' = [requests EXCEPT ![i].pc = "json"]
            /\ last' = Step("response", TRUE, requests[i], Undefined, Null)
            /\ UNCHANGED <<query, response, isLoading, error, chatHistory, kb,
                           sent, outcomes, nAccepted, nSucceeded, nFailed>>

\* await apiResponse.json() rejects: the payload is no JSON, line 98
JsonRejects(i) ==
    /\ requests[i].pc = "json"
    /\ Catch(i, ParseError, Undefined)

\* await apiResponse.json() resolves to this document, lines 98-110
JsonResolves(i, body) ==
    /\ requests[i].pc = "json"
    /\ LET aiText == AiText(body) IN
       IF aiText.threw
       THEN Catch(i, aiText.err, body)
       ELSE Succeed(i, body, aiText.value)

Settle ==
    \E i \in 1..Len(requests) :
        \/ FetchRejects(i)
        \/ \E status \in Statuses : FetchResolves(i, status)
        \/ JsonRejects(i)
        \/ \E body \in Bodies : JsonResolves(i, body)

Next ==
    \/ \E q \in Queries : OnChange(q)
    \/ ClickAsk
    \/ \E key \in Keys : KeyPress(key)
    \/ \E i \in 1..Len(requests) : FetchRejects(i)
    \/ \E i \in 1..Len(requests), status \in Statuses : FetchResolves(i, status)
    \/ \E i \in 1..Len(requests) : JsonRejects(i)
    \/ \E i \in 1..Len(requests), body \in Bodies : JsonResolves(i, body)

Spec == Init /\ [][Next]_vars

\* the network answers every request, and a body that has arrived is read
FairSpec == Spec /\ WF_vars(Settle)

(***************************************************************************)
(* The retrieval and the context block on their own: the handler is run    *)
(* once, on a query and a corpus drawn from the sets below.                *)
(***************************************************************************)
SmallPassages ==
    {[topic |-> t, text |-> x] : t \in {"", "Ab"}, x \in {"b", "aB a"}}

Corpora ==
    UNION {[1..n -> SmallPassages] : n \in 1..MaxCorpusLen} \cup {lkyKnowledgeBase}

RetrievalQueries ==
    {" ", "a", "B", "ab", "AB", "ba", "x", "Z", "meritocracy", "xyzzy", "LEADER"}

RetrievalInit ==
    /\ query \in RetrievalQueries
    /\ response = Null
    /\ isLoading = FALSE
    /\ error = Null
    /\ chatHistory = <<>>
    /\ kb \in Corpora
    /\ requests = <<>>
    /\ sent = <<>>
    /\ outcomes = <<>>
    /\ nAccepted = 0
    /\ nSucceeded = 0
    /\ nFailed = 0
    /\ last = Step("init", FALSE, NoFrame, Undefined, Null)

RetrievalNext ==
    \/ ClickAsk
    \/ \E i \in 1..Len(requests) : FetchRejects(i)

RetrievalSpec == RetrievalInit /\ [][RetrievalNext]_vars

(***************************************************************************)
(* Properties.                                                             *)
(***************************************************************************)
IsPrefix(s, t) == Len(s) <= Len(t) /\ SubSeq(t, 1, Len(s)) = s

Pending == isLoading
SubmitEvents == {"click", "Enter"}

\* C1: at most one generation request is outstanding in every reachable state,
\* and a click on Ask or an Enter key press made while a turn is Pending issues
\* no request and appends no Turn to History.
AtMostOneTurnInFlight ==
    /\ [](Len(requests) <= 1)
    /\ [][(Pending /\ last'.ev \in SubmitEvents)
            => (requests' = requests /\ chatHistory' = chatHistory
                /\ nAccepted' = nAccepted)]_vars

\* a submit was attempted while the one turn was in flight
SubmitWhilePending ==
    /\ Pending
    /\ Len(requests) = 1
    /\ last.ev \in SubmitEvents
    /\ ~last.delivered

\* C2: History is append-only: in every step the History before the step is a
\* prefix of the History after it.
HistoryAppendOnly == [][IsPrefix(chatHistory, chatHistory')]_vars

\* the second turn's assistant Turn has been appended after its user Turn
SecondAssistantTurnAppended ==
    /\ last.ev = "succeeded"
    /\ last.frame.chatHistory # <<>>
    /\ Len(chatHistory) = 4

\* C3: when the generation call of an accepted submission fails, History is its
\* value before the submission plus the user Turn only, and the controller is
\* Errored: not loading, error message set.
FailureAddsOnlyUserTurn ==
    last.ev = "failed" =>
        /\ Len(chatHistory) = Len(last.frame.chatHistory) + 1
        /\ IsPrefix(last.frame.chatHistory, chatHistory)
        /\ chatHistory[Len(chatHistory)] = [role |-> "user", text |-> last.frame.query]
        /\ ~isLoading
        /\ error # Null

\* a turn failed on a payload that is no JSON, after an earlier turn
FailedOnParse ==
    /\ last.ev = "failed"
    /\ last.err = ParseError.message
    /\ last.frame.chatHistory # <<>>

Settled(step) == step.ev \in {"failed", "succeeded"}

\* the document carries candidates[0].content.parts[0].text
HasGeneratedText(body) == \E t \in ReplyTexts : body = Reply(<<JObj("text", JStr(t))>>)

LastTurn == chatHistory[Len(chatHistory)]

\* C4: when the call succeeds with status OK and the response document lacks
\* the generated-text structure, an assistant Turn with the text "No response
\* found." is appended, no error message is set and the state is Idle.
MalformedBodyDegrades ==
    (/\ Settled(last)
     /\ last.frame.query = "x"
     /\ last.body \in Bodies
     /\ last.body.t = "object"
     /\ ~HasGeneratedText(last.body)) =>
        /\ last.ev = "succeeded"
        /\ chatHistory # <<>>
        /\ LastTurn = [role |-> "gemini", text |-> NoResponseFound]
        /\ error = Null
        /\ ~isLoading

CountRole(history, role) == Cardinality({i \in 1..Len(history) : history[i].role = role})

\* C5: from an empty History, once N accepted submissions have all succeeded
\* and settled, History holds exactly 2N Turns: N user Turns and N assistant
\* Turns.
AllSucceededGives2N ==
    (nFailed = 0 /\ requests = <<>>) =>
        /\ Len(chatHistory) = 2 * nAccepted
        /\ CountRole(chatHistory, "user") = nAccepted
        /\ CountRole(chatHistory, "gemini") = nAccepted

\* two submissions were accepted and both have succeeded
TwoTurnsSucceeded ==
    /\ nAccepted = 2
    /\ nSucceeded = 2
    /\ nFailed = 0
    /\ requests = <<>>

\* a string of whitespace only, the empty string included
Blank(q) == \A i \in 1..Len(q) : SubSeq(q, i, i) = " "

\* C6: a submission whose query is empty or blank, a whitespace-only string
\* included, changes nothing: no Turn, no request, error and loading flag as
\* they were.
BlankQueryIgnored ==
    [][(Blank(query) /\ last'.ev \in SubmitEvents)
         => UNCHANGED <<query, response, isLoading, error, chatHistory,
                        requests, nAccepted>>]_vars

\* C7: the user Turn of an accepted submission is in History for as long as its
\* request is outstanding, and on success the assistant Turn follows it
\* directly: History order is the order of the events.
UserTurnBeforeAssistant ==
    /\ \A i \in 1..Len(requests) :
          chatHistory = requests[i].chatHistory
                          \o <<[role |-> "user", text |-> requests[i].query]>>
    /\ last.ev = "succeeded" =>
          /\ Len(chatHistory) = Len(last.frame.chatHistory) + 2
          /\ IsPrefix(last.frame.chatHistory, chatHistory)
          /\ chatHistory[Len(chatHistory) - 1]
                = [role |-> "user", text |-> last.frame.query]
          /\ LastTurn.role = "gemini"

\* the body of the second turn is awaited, the user Turn already in History
SecondTurnAwaitsBody ==
    /\ Len(requests) = 1
    /\ requests[1].pc = "json"
    /\ Len(chatHistory) = 3
    /\ chatHistory[2].role = "gemini"

Errored == error # Null
Accepted == nAccepted' = nAccepted + 1

\* C8: the controller is never both Pending and Errored; an accepted submission
\* enters Pending with the error cleared; an error that a failure recorded is
\* left as it is by every step but an accepted submission.
OneTurnStateAtATime ==
    /\ [](~(Pending /\ Errored))
    /\ [][Accepted => (isLoading' /\ error' = Null)]_vars
    /\ [][(Errored /\ error' # error) => Accepted]_vars

\* a submission has been accepted while the error of the turn before was shown
ErrorClearedBySubmit ==
    /\ last.ev \in SubmitEvents
    /\ last.frame.pc = "fetch"
    /\ nFailed >= 1
    /\ Pending
    /\ ~Errored

\* C9: a turn that is Pending leaves Pending, given that the outstanding call
\* settles; the loading flag is set only while a call is outstanding, and
\* nothing but the settling of the call takes the controller out of Pending.
PendingRunsToCompletion ==
    /\ Pending ~> ~Pending
    /\ [](Pending => requests # <<>>)
    /\ [][(Pending /\ ~Pending') => (Settled(last') /\ requests' = <<>>)]_vars

\* both turns have run to completion, one to Errored and one to Idle
BothOutcomesReached ==
    /\ ~Pending
    /\ requests = <<>>
    /\ nFailed = 1
    /\ nSucceeded = 1

Details ==
    {NetworkError.message, ParseError.message, ReadError("candidates").message,
     ReadError("0").message}
      \cup {ApiError(status).message : status \in Statuses}

\* C10: whatever the cause of a failure, the error shown is the fixed string
\* "An error occurred. Please try again."; the detail of the caught error is
\* never the error shown, and no Turn of History is made of it.
GenericErrorMessage ==
    /\ error \in {Null, ErrorMessage}
    /\ error \notin Details
    /\ last.ev = "failed" =>
          /\ error = "An error occurred. Please try again."
          /\ last.err \in Details
          /\ LastTurn.role = "user"
    /\ \A i \in 1..Len(chatHistory) :
          \/ chatHistory[i].role = "user" /\ chatHistory[i].text \in Queries
          \/ /\ chatHistory[i].role = "gemini"
             /\ chatHistory[i].text \in ReplyTexts \cup {NoResponseFound}

\* the service answered 500 and the controller shows the fixed message
FailedOnStatus500 ==
    /\ last.ev = "failed"
    /\ last.err = "API error: 500 Internal Server Error"
    /\ error = ErrorMessage

\* C11: every accepted submission calls fetch exactly once and a failed call is
\* not made again: the calls of fetch are as many as the accepted submissions,
\* one per turn, and no step that settles a call makes another.
OneRequestPerSubmission ==
    /\ [](Len(sent) = nAccepted)
    /\ [](\A k \in 1..nAccepted :
            Cardinality({i \in 1..Len(sent) : sent[i].turn = k}) = 1)
    /\ [](Len(requests) + nSucceeded + nFailed = Len(sent))
    /\ [][(requests' # requests /\ nAccepted' = nAccepted) => sent' = sent]_vars

\* two requests were sent for two turns, one that failed and one that succeeded
TwoRequestsBothPaths ==
    /\ Len(sent) = 2
    /\ outcomes \in {<<"failed", "succeeded">>, <<"succeeded", "failed">>}

\* C12: the input is cleared when the pipeline of an accepted submission has
\* settled, by success and by failure, and it holds the submitted query for as
\* long as the call is outstanding.
QueryClearedOnSettle ==
    /\ Settled(last) => query = ""
    /\ \A i \in 1..Len(requests) : query = requests[i].query /\ query # ""

\* a turn has failed and the input is empty again
QueryClearedAfterFailure ==
    /\ last.ev = "failed"
    /\ last.frame.query # ""
    /\ query = ""

\* C13: when the response carries candidates[0].content.parts[0].text, the
\* assistant Turn has exactly that text, whatever its value, the empty string
\* included.
GeneratedTextShownVerbatim ==
    \A t \in ReplyTexts :
        (Settled(last) /\ last.body = Reply(<<JObj("text", JStr(t))>>)) =>
            /\ last.ev = "succeeded"
            /\ LastTurn = [role |-> "gemini", text |-> t]

\* two characters that are equal, or the upper and the lower case of one letter
SameLetter(a, b) ==
    \/ a = b
    \/ \E k \in 1..26 :
          {a, b} = {CharAt(UpperCaseLetters, k), CharAt(LowerCaseLetters, k)}

\* q occurs in s, the case of the letters left aside
ContainsIgnoringCase(s, q) ==
    \E i \in 1..(Len(s) - Len(q) + 1) :
        \A j \in 1..Len(q) : SameLetter(CharAt(s, i + j - 1), CharAt(q, j))

\* the places in the corpus of the passages that q selects
Hits(q, corpus) ==
    {k \in 1..Len(corpus) :
        \/ ContainsIgnoringCase(corpus[k].topic, q)
        \/ ContainsIgnoringCase(corpus[k].text, q)}

\* the n-th smallest of a set of numbers
Nth(S, n) == CHOOSE h \in S : Cardinality({k \in S : k <= h}) = n

\* C14: the retrieval is a stable, case-insensitive substring filter: the
\* selected sequence holds exactly the passages of the corpus whose topic or
\* text contains the query, case left aside, each once and in corpus order.
RetrievalIsStableFilter ==
    \A i \in 1..Len(requests) :
        LET docs == requests[i].retrievedDocs
            hits == Hits(requests[i].query, kb)
        IN  /\ Len(docs) = Cardinality(hits)
            /\ \A n \in 1..Len(docs) : docs[n] = kb[Nth(hits, n)]

\* of three passages the first and the third are selected by a query in upper
\* case, the second is not
OuterPassagesSelected ==
    /\ Len(requests) = 1
    /\ requests[1].query = "AB"
    /\ Len(kb) = 3
    /\ kb[1] # kb[3]
    /\ kb[2] \notin {kb[1], kb[3]}
    /\ requests[1].retrievedDocs = <<kb[1], kb[3]>>

\* the texts a context block is built from: those of the selected passages,
\* or those of the whole corpus when nothing was selected
ContextTexts(docs, corpus) ==
    IF docs # <<>>
    THEN [n \in 1..Len(docs) |-> docs[n].text]
    ELSE [n \in 1..Len(corpus) |-> corpus[n].text]

\* the length of the first n texts with a separator after each
RECURSIVE Offset(_, _)
Offset(texts, n) ==
    IF n = 0 THEN 0
    ELSE Offset(texts, n - 1) + Len(texts[n]) + Len(Separator)

\* the number of places of s where the part p starts
Occurrences(s, p) ==
    Cardinality({i \in 1..(Len(s) - Len(p) + 1) : SubSeq(s, i, i + Len(p) - 1) = p})

\* C15: the context block is the texts of the selected passages, or of the
\* whole corpus when nothing was selected, in order: k texts with one line
\* "---" between each two neighbours, k-1 separators in all, none before the
\* first text and none after the last.
ContextBlockLayout ==
    \A i \in 1..Len(requests) :
        LET texts == ContextTexts(requests[i].retrievedDocs, kb)
            block == requests[i].context
            k     == Len(texts)
        IN  /\ k >= 1
            /\ Len(block) = Offset(texts, k) - Len(Separator)
            /\ \A n \in 1..k :
                  SubSeq(block, Offset(texts, n - 1) + 1,
                         Offset(texts, n) - Len(Separator)) = texts[n]
            /\ \A n \in 1..(k - 1) :
                  SubSeq(block, Offset(texts, n) - Len(Separator) + 1,
                         Offset(texts, n)) = "\n---\n"
            /\ (\A n \in 1..k : Occurrences(texts[n], "---") = 0)
                  => Occurrences(block, "---") = k - 1

\* a query that selects nothing from the four passages: the block holds the
\* four texts and three separators
FallbackBlockOfFourTexts ==
    /\ Len(requests) = 1
    /\ kb = lkyKnowledgeBase
    /\ Len(kb) = 4
    /\ requests[1].query = "xyzzy"
    /\ requests[1].retrievedDocs = <<>>
    /\ Occurrences(requests[1].context, "---") = 3
    /\ \A n \in 1..4 : Includes(requests[1].context, kb[n].text)

\* C16: the prompt sent for an accepted submission is a function of the
\* submitted query and the corpus only: two submissions of the same query,
\* made from different History and error values, send the same request.
PromptIgnoresHistory ==
    \A i, j \in 1..Len(sent) :
        sent[i].query = sent[j].query =>
            /\ sent[i].request = sent[j].request
            /\ sent[i].request.body =
                  Payload(AugmentedPrompt(sent[i].query,
                      Context(RetrievedDocs(sent[i].query, kb), kb)))

\* the same query submitted twice, the second time after the first failed:
\* the History and the error differ between the two submissions
SameQueryFromDifferentStates ==
    /\ Len(sent) = 2
    /\ sent[1].query = sent[2].query
    /\ sent[1].from.chatHistory # sent[2].from.chatHistory
    /\ sent[1].from.error # sent[2].from.error

\* the prompt of a request that was sent
PromptOf(request) == request.body.contents[1].parts[1].text

\* the context block of a prompt made for the query q
ContextOf(prompt, q) ==
    SubSeq(prompt, Len(PromptHead) + Len(q) + Len(PromptMiddle) + 1,
           Len(prompt) - Len(PromptTail))

\* C17: the corpus is the same non-empty sequence in every reachable state,
\* no step changes it, and the context block of every prompt that is sent
\* contains the text of at least one passage.
CorpusFixedAndContextNonEmpty ==
    /\ [](kb = lkyKnowledgeBase /\ Len(kb) > 0)
    /\ [][kb' = kb]_vars
    /\ [](\A i \in 1..Len(sent) :
            LET block == ContextOf(PromptOf(sent[i].request), sent[i].query)
            IN  /\ block # ""
                /\ \E k \in 1..Len(kb) : Includes(block, kb[k].text))

\* a prompt was sent for a query that selects no passage, and a turn settled
\* since
FallbackPromptSent ==
    /\ Len(sent) = 2
    /\ sent[2].query = "x"
    /\ Filter("x", kb) = <<>>
    /\ outcomes[1] = "succeeded"
    /\ Includes(PromptOf(sent[2].request), kb[1].text)

\* the turns that have not settled
Outstanding == {k \in 1..Len(outcomes) : outcomes[k] = "pending"}

\* C18: isLoading is true exactly when a request issued by handleAskLKY has
\* not settled yet, and no settle step clears it while another request is
\* still outstanding.
LoadingIffOutstanding ==
    /\ [](isLoading <=> Outstanding # {})
    /\ [](isLoading <=> requests # <<>>)
    /\ [][(isLoading /\ ~isLoading') => Outstanding' = {}]_vars

\* a second request is outstanding after the first one settled
LoadingForSecondRequest ==
    /\ isLoading
    /\ outcomes = <<"failed", "pending">>
    /\ Len(requests) = 1

\* C19: History is well-formed: every assistant Turn is immediately preceded
\* by a user Turn, the assistant Turns are no more than the user Turns and no
\* more than the turns that settled with success, and two user Turns follow
\* each other only where the turn of the earlier one failed.
HistoryWellFormed ==
    /\ \A i \in 1..Len(chatHistory) :
          chatHistory[i].role = "gemini" =>
              i > 1 /\ chatHistory[i - 1].role = "user"
    /\ CountRole(chatHistory, "gemini") <= CountRole(chatHistory, "user")
    /\ CountRole(chatHistory, "gemini") <= nSucceeded
    /\ \A i \in 1..(Len(chatHistory) - 1) :
          (chatHistory[i].role = "user" /\ chatHistory[i + 1].role = "user") =>
              outcomes[CountRole(SubSeq(chatHistory, 1, i), "user")] = "failed"

\* a failed turn followed by a successful one: two user Turns, then the
\* assistant Turn
UserUserAssistant ==
    /\ outcomes = <<"failed", "succeeded">>
    /\ Len(chatHistory) = 3
    /\ chatHistory[1].role = "user"
    /\ chatHistory[2].role = "user"
    /\ chatHistory[3].role = "gemini"

====
